---- MODULE Spec2Model ----
(***************************************************************************)
(* Model of packages/cli/src/lib/template-diff.ts: the one-shot merge of   *)
(* a starter template and a diff directory into a temporary target         *)
(* directory (applyTemplateDiff) and the session built on it               *)
(* (prepareDiffDirectory: the three file watches, cleanup and the two      *)
(* pull-back operations).                                                  *)
(*                                                                         *)
(* A directory tree is a function from relative paths to file contents;    *)
(* a relative path is the sequence of its components.  Directories are     *)
(* implicit: a directory exists when a file lies under it.                 *)
(***************************************************************************)
EXTENDS Naturals, Sequences, FiniteSets

None == "none"

\* ---------------------------------------------------------------- paths

RootTsx      == <<"app", "root.tsx">>
Readme       == <<"README.md">>
Changelog    == <<"CHANGELOG.md">>
DistIndex    == <<"dist", "index.js">>
XTurboFile   == <<"xturbo", "a.js">>
PackageJson  == <<"package.json">>
TsConfig     == <<"tsconfig.json">>
ShopifyConf  == <<".shopify", "project.json">>
GeneratedDts == <<"storefrontapi.generated.d.ts">>
CustomerDts  == <<"customer-accountapi.generated.d.ts">>
DotEnv       == <<".env">>

\* The files of the model's directory trees.
AllPaths ==
    { RootTsx, Readme, Changelog, DistIndex, XTurboFile, PackageJson,
      TsConfig, ShopifyConf, GeneratedDts, CustomerDts, DotEnv }

\* relativePath(templateDir, diffDirectory): where the diff directory lies,
\* seen from the template directory.
DiffRelChoices ==
    { <<"..", "examples", "b2b">>, <<"..", "..", "examples", "b2b">> }

\* Values of the h2:diff skipFiles option: relative paths of the template.
SkipChoices == { {}, {Readme}, {<<"app">>}, {Changelog, Readme} }

\* File contents: the template's and the diff's original text, an edited
\* text per directory, and the manifest written by the merge.
Contents == { "t0", "t1", "d0", "d1", "x1", "merged" }

EmptyTree == [p \in AllPaths |-> None]

\* The trees whose files are among the paths S, each with content c.
TreesOver(S, c) ==
    { [p \in AllPaths |-> IF p \in F THEN c ELSE None] : F \in SUBSET S }

\* The files a template tree and a diff tree handed to applyTemplateDiff
\* may hold.
ApplyTemplatePaths ==
    { RootTsx, Readme, Changelog, DistIndex, XTurboFile, PackageJson,
      ShopifyConf }
ApplyDiffPaths ==
    { RootTsx, Readme, Changelog, DistIndex, XTurboFile, PackageJson,
      TsConfig }

Files(tree) == { p \in AllPaths : tree[p] # None }

\* The path p lies at or under the path dir.
Under(dir, p) == Len(dir) <= Len(p) /\ SubSeq(p, 1, Len(dir)) = dir

\* ------------------------------------------------------- copy filters

\* The i flag of both patterns: letters compare in lower case.
Lower(c) ==
    CASE c = "CHANGELOG.md" -> "changelog.md"
      [] c = "README.md"    -> "readme.md"
      [] OTHER              -> c

\* Alternation of the template pattern:
\* (dist|node_modules|\.cache|\.turbo|\.shopify|CHANGELOG\.md)
TemplateReName(c) ==
    Lower(c) \in { "dist", "node_modules", ".cache", ".turbo", ".shopify",
                   "changelog.md" }

\* Alternation of the diff pattern:
\* (dist|node_modules|\.cache|.turbo|package\.json|tsconfig\.json)
\* The dot of .turbo is not escaped: it stands for any one character.
DiffReName(c) ==
    \/ Lower(c) \in { "dist", "node_modules", ".cache", "package.json",
                      "tsconfig.json" }
    \/ Lower(c) \in { ".turbo", "xturbo" }

\* re.test(filename) for a pattern (^|\/|\\)(alternation)(\/|\\|$): some
\* component of the file name is one of the alternatives.
ReTest(re, filename) ==
    \E i \in 1..Len(filename) :
        IF re = "template" THEN TemplateReName(filename[i])
                           ELSE DiffReName(filename[i])

\* ------------------------------------------------------------ bounds

\* External file edits (by the developer's editor or tools) while only the
\* watches run.
MaxEdits == 2
\* What happens to a session from outside: the external edits and the calls
\* of cleanup() and of the pull-back operations, taken together.
MaxSession == 2
\* Unsubscribe calls that one call of cleanup() sees rejected.
MaxFailing == 1
\* Words of a script line of a manifest.
MaxScriptLen == 4

\* The three directories, which are also the three watches.
Watches == { "target", "diff", "template" }

VARIABLES
    T,            \* the template directory's tree
    D,            \* the diff directory's tree
    X,            \* the target directory's tree
    targetExists, \* the target directory exists on disk
    diffRel,      \* relativePath(templateDir, diffDirectory)
    skipFiles,    \* diffOptions.skipFiles, read from the diff's manifest
    templatePkgJson, \* the template's parsed package.json
    diffPkgJson,  \* the diff's parsed package.json, with its h2:diff options
    pkgJson,      \* the manifest the merge has written to the target
    pc,           \* position of applyTemplateDiff / prepareDiffDirectory
    watch,        \* the parameter watch of prepareDiffDirectory
    pw,           \* the imported watcher module: "unset", "module", "undefined"
    sub,          \* per watch: "none", "pending", "on", "rejected", "off"
    pending,      \* per watch: the events the backend has not delivered yet
    tasks,        \* the per-event promises of the watch callbacks, in flight
    nEvents,      \* events raised so far (numbers the events)
    edits,        \* external edits so far
    unhandled,    \* a promise of a watch callback was rejected and not caught
    lastCall,     \* the file operation the last finished event handler made
    cleanupPc,    \* position of the running cleanup(): "idle", "remove"
    cleanupCalls, \* calls of cleanup() that have ended
    cleanupResult,\* how the last cleanup() ended: "none", "returned", "threw"
    removeAttempted, \* the last cleanup() called remove(targetDirectory)
    pull,         \* the pull-back operation under way and what it has left
    pulls,        \* pull-back operations called so far
    writes        \* every create, overwrite or delete the system performed

\* The three manifests.
manifests == <<templatePkgJson, diffPkgJson, pkgJson>>

applyVars == <<T, D, X, targetExists, diffRel, skipFiles, manifests, pc,
               writes>>

watchVars == <<watch, pw, sub, pending, tasks, nEvents, edits, unhandled,
               lastCall>>

callVars == <<cleanupPc, cleanupCalls, cleanupResult, removeAttempted, pull,
              pulls>>

vars == <<T, D, X, targetExists, diffRel, skipFiles, manifests, pc, writes,
          watch, pw,
          sub, pending, tasks, nEvents, edits, unhandled, lastCall,
          cleanupPc, cleanupCalls, cleanupResult, removeAttempted, pull,
          pulls>>

\* The external edits and the calls of the handle so far.
Stimuli == edits + pulls + cleanupCalls

\* The record of one write of the system: by names the operation.
Write(dir, p, by) == [dir |-> dir, path |-> p, by |-> by]

\* relativePath(templateDir, filepath) for a file at relative path p of the
\* tree rooted at root.
RelativeToTemplate(root, p) == IF root = "template" THEN p ELSE diffRel \o p

\* The template filter without its skip list.
TemplateFilterNoSkip(p) ==
    ~ReTest("template", RelativeToTemplate("template", p))

\* createFilter(re, skipFiles)(filepath): TRUE when the path is to be copied.
TemplateFilter(p) ==
    LET filename == RelativeToTemplate("template", p)
    IN  ~ReTest("template", filename) /\ filename \notin skipFiles

DiffFilter(p) ==
    LET filename == RelativeToTemplate("diff", p)
    IN  ~ReTest("diff", filename)

\* copyDirectory(src, dest, {filter}) of fs-extra: the filter is asked for
\* the root and for every entry on the way down; an entry it rejects is
\* neither copied nor descended into.  Existing files are overwritten.
Included(filter, p) ==
    \A k \in 0..Len(p) :
        IF filter = "template" THEN TemplateFilter(SubSeq(p, 1, k))
                               ELSE DiffFilter(SubSeq(p, 1, k))

copyDirectory(src, dest, filter) ==
    [p \in AllPaths |->
        IF src[p] # None /\ Included(filter, p) THEN src[p] ELSE dest[p]]

\* ---------------------------------------------------------- manifests

\* A package.json is a record of its dependencies, devDependencies and
\* scripts sections and of the h2:diff options skipDependencies and
\* skipDevDependencies.  A section says whether the key is present and maps
\* every name to its value, Absent (for a script: the empty line) when the
\* section has no such entry.
Cli == "@shopify/cli-hydrogen"

DepNames == { Cli, "lodash" }

Absent == "absent"

ScriptNames == { "build", "dev", "preview", "lint" }

\* The words of a script line: one white space character, the flag literal
\* --diff, and any other word.
Space == "sp"
Flag  == "--diff"
Word  == "vite"

Tokens == { Space, Flag, Word }

ScriptLines == UNION { [1..n -> Tokens] : n \in 0..MaxScriptLen }

NoDeps == [defined |-> FALSE, of |-> [n \in DepNames |-> Absent]]

NoScripts == [defined |-> FALSE, of |-> [k \in ScriptNames |-> <<>>]]

\* A dependencies section with the given entries.
Deps(cli, lodash) ==
    [defined |-> TRUE,
     of |-> [n \in DepNames |-> IF n = Cli THEN cli ELSE lodash]]

\* A scripts section whose script key is line, over the scripts of base.
Scripts(base, key, line) ==
    [defined |-> TRUE,
     of |-> [k \in ScriptNames |-> IF k = key THEN line ELSE base[k]]]

NoManifest ==
    [dependencies |-> NoDeps, devDependencies |-> NoDeps,
     scripts |-> NoScripts, skipDependencies |-> {},
     skipDevDependencies |-> {}]

\* The pattern /\s+--diff/ matches the words i..j of the line.
MatchesAt(line, i, j) ==
    /\ i < j /\ j <= Len(line)
    /\ line[j] = Flag
    /\ \A k \in i..(j - 1) : line[k] = Space

\* The line holds the token: white space followed by --diff.
HasFlag(line) == \E i, j \in 1..Len(line) : MatchesAt(line, i, j)

\* scriptLine.replace(/\s+--diff/, ''): the pattern has no g flag, so the
\* leftmost match is removed and the rest of the line is kept as it is.
StripDiff(line) ==
    IF ~HasFlag(line) THEN line
    ELSE LET i == CHOOSE a \in 1..Len(line) :
                    /\ \E b \in 1..Len(line) : MatchesAt(line, a, b)
                    /\ \A c \in 1..(a - 1) :
                          ~\E b \in 1..Len(line) : MatchesAt(line, c, b)
             j == CHOOSE b \in 1..Len(line) : MatchesAt(line, i, b)
         IN  SubSeq(line, 1, i - 1) \o SubSeq(line, j + 1, Len(line))

\* The structural merge of mergePackageJson: the entries of the source
\* section override the same-named entries of the destination section.
MergeDeps(dst, src) ==
    [defined |-> dst.defined \/ src.defined,
     of |-> [n \in DepNames |->
                IF src.of[n] # Absent THEN src.of[n] ELSE dst.of[n]]]

MergeScripts(dst, src) ==
    [defined |-> dst.defined \/ src.defined,
     of |-> [k \in ScriptNames |->
                IF src.of[k] # <<>> THEN src.of[k] ELSE dst.of[k]]]

\* The merged document handed to onResult; ignoredKeys keeps h2:diff out.
MergeManifests(dst, src) ==
    [dependencies |-> MergeDeps(dst.dependencies, src.dependencies),
     devDependencies |-> MergeDeps(dst.devDependencies, src.devDependencies),
     scripts |-> MergeScripts(dst.scripts, src.scripts),
     skipDependencies |-> {},
     skipDevDependencies |-> {}]

\* if (pkgJson.dependencies && templatePkgJson.dependencies)
\*   pkgJson.dependencies[cli] = templatePkgJson.dependencies[cli] ?? '*'
RestoreCliVersion(pkg) ==
    IF pkg.dependencies.defined /\ templatePkgJson.dependencies.defined
    THEN [pkg EXCEPT !.dependencies.of[Cli] =
             IF templatePkgJson.dependencies.of[Cli] # Absent
             THEN templatePkgJson.dependencies.of[Cli] ELSE "*"]
    ELSE pkg

\* for (const key of ['build', 'dev', 'preview']): a script that is a
\* non-empty string is replaced by scriptLine.replace(/\s+--diff/, '').
StripScripts(pkg) ==
    [pkg EXCEPT !.scripts.of =
        [k \in ScriptNames |->
            IF k \in {"build", "dev", "preview"} /\ pkg.scripts.of[k] # <<>>
            THEN StripDiff(pkg.scripts.of[k]) ELSE pkg.scripts.of[k]]]

\* delete pkgJson.dependencies[dep] for every dep of skipDependencies.
SkipDependencies(pkg) ==
    IF pkg.dependencies.defined
    THEN [pkg EXCEPT !.dependencies.of =
            [n \in DepNames |->
                IF n \in diffPkgJson.skipDependencies
                THEN Absent ELSE pkg.dependencies.of[n]]]
    ELSE pkg

\* delete pkgJson.devDependencies[devDep] for every devDep of
\* skipDevDependencies.
SkipDevDependencies(pkg) ==
    IF pkg.devDependencies.defined
    THEN [pkg EXCEPT !.devDependencies.of =
            [n \in DepNames |->
                IF n \in diffPkgJson.skipDevDependencies
                THEN Absent ELSE pkg.devDependencies.of[n]]]
    ELSE pkg

\* The onResult callback applyTemplateDiff hands to mergePackageJson.
onResult(pkg) ==
    SkipDevDependencies(SkipDependencies(StripScripts(RestoreCliVersion(pkg))))

\* ------------------------------------------------- applyTemplateDiff

\* readAndParsePackageJson of both manifests: a missing manifest is fatal.
ReadManifests ==
    /\ pc = "read"
    /\ pc' = IF D[PackageJson] # None /\ T[PackageJson] # None
              THEN "copyTemplate" ELSE "failed"
    /\ UNCHANGED <<T, D, X, targetExists, diffRel, skipFiles, manifests,
                   writes>>
    /\ UNCHANGED <<watchVars, callVars>>

\* copyDirectory(templateDir, targetDirectory, {filter})
CopyTemplate ==
    /\ pc = "copyTemplate"
    /\ X' = copyDirectory(T, X, "template")
    /\ writes' = writes \cup
         { Write("target", p, "applyTemplateDiff") :
             p \in { q \in Files(T) : Included("template", q) } }
    /\ pc' = "copyDiff"
    /\ UNCHANGED <<T, D, targetExists, diffRel, skipFiles, manifests>>
    /\ UNCHANGED <<watchVars, callVars>>

\* copyDirectory(diffDirectory, targetDirectory, {filter})
CopyDiff ==
    /\ pc = "copyDiff"
    /\ X' = copyDirectory(D, X, "diff")
    /\ writes' = writes \cup
         { Write("target", p, "applyTemplateDiff") :
             p \in { q \in Files(D) : Included("diff", q) } }
    /\ pc' = "merge"
    /\ UNCHANGED <<T, D, targetExists, diffRel, skipFiles, manifests>>
    /\ UNCHANGED <<watchVars, callVars>>

\* mergePackageJson(diffDirectory, targetDirectory, ...): reads the diff's
\* and the target's manifest and writes the merged one to the target.
mergePackageJson ==
    /\ pc = "merge"
    /\ IF D[PackageJson] # None /\ X[PackageJson] # None
       THEN /\ X' = [X EXCEPT ![PackageJson] = "merged"]
            /\ pkgJson' = onResult(MergeManifests(templatePkgJson, diffPkgJson))
            /\ writes' = writes \cup
                 { Write("target", PackageJson, "applyTemplateDiff") }
            /\ pc' = "applied"
       ELSE /\ X' = X
            /\ pkgJson' = pkgJson
            /\ writes' = writes
            /\ pc' = "failed"
    /\ UNCHANGED <<T, D, targetExists, diffRel, skipFiles, templatePkgJson,
                   diffPkgJson>>
    /\ UNCHANGED <<watchVars, callVars>>

\* No event handler has finished yet.
NoCall == [dir |-> "-", type |-> "-", op |-> "-", from |-> "-"]

\* The state of a session that has not started its watches or calls.
NoSession ==
    /\ watch = FALSE
    /\ pw = "unset"
    /\ sub = [w \in Watches |-> "none"]
    /\ pending = [w \in Watches |-> <<>>]
    /\ tasks = {}
    /\ nEvents = 0
    /\ edits = 0
    /\ unhandled = FALSE
    /\ lastCall = NoCall
    /\ cleanupPc = "idle"
    /\ cleanupCalls = 0
    /\ cleanupResult = "none"
    /\ removeAttempted = FALSE
    /\ pull = "idle"
    /\ pulls = 0

\* The manifests of the skeleton template and of a diff example: the diff
\* declares the CLI with the wildcard and runs its build with --diff.
SessionTemplatePkg ==
    [NoManifest EXCEPT !.dependencies = Deps("^3.0.0", Absent),
                       !.scripts = Scripts(NoScripts.of, "build", <<Word>>)]

SessionDiffPkg ==
    [NoManifest EXCEPT !.dependencies = Deps("*", "1.0.0"),
                       !.scripts = Scripts(NoScripts.of, "build",
                                           <<Word, Space, Flag>>)]

applyTemplateDiff == ReadManifests \/ CopyTemplate \/ CopyDiff \/ mergePackageJson

\* applyTemplateDiff called with any template tree, any diff tree and an
\* empty target directory.
InitApply ==
    /\ T \in TreesOver(ApplyTemplatePaths, "t0")
    /\ D \in TreesOver(ApplyDiffPaths, "d0")
    /\ X = EmptyTree
    /\ targetExists = TRUE
    /\ diffRel \in DiffRelChoices
    /\ skipFiles \in SkipChoices
    /\ templatePkgJson = SessionTemplatePkg
    /\ diffPkgJson = SessionDiffPkg
    /\ pkgJson = NoManifest
    /\ pc = "read"
    /\ writes = {}
    /\ NoSession

SpecApply == InitApply /\ [][applyTemplateDiff]_vars

\* The template manifests handed to applyTemplateDiff: without a dependencies
\* section, with an empty one, and with one that declares the CLI.
TemplateManifests ==
    { [NoManifest EXCEPT !.dependencies = d,
                         !.scripts = Scripts(NoScripts.of, "dev",
                                             <<Word, Space, Flag>>)] :
        d \in { NoDeps, Deps(Absent, Absent), Deps("^3.0.0", Absent),
                Deps("^3.0.0", "1.0.0") } }

\* Values of the h2:diff options skipDependencies and skipDevDependencies.
DiffOptionChoices == { <<{}, {}>>, <<{"lodash"}, {"lodash"}>>, <<{Cli}, {}>> }

\* The diff manifests handed to applyTemplateDiff: one script with any line.
DiffManifests ==
    { [dependencies |-> d, devDependencies |-> v,
       scripts |-> Scripts(NoScripts.of, k, l),
       skipDependencies |-> o[1], skipDevDependencies |-> o[2]] :
        d \in { NoDeps, Deps("*", Absent), Deps("1.0.0", Absent),
                Deps("*", "1.0.0") },
        v \in { NoDeps, Deps(Absent, "1.0.0") },
        k \in ScriptNames, l \in ScriptLines, o \in DiffOptionChoices }

\* applyTemplateDiff called with any template manifest and any diff manifest.
InitManifest ==
    /\ T = [p \in AllPaths |-> IF p \in {RootTsx, PackageJson} THEN "t0" ELSE None]
    /\ D = [p \in AllPaths |-> IF p \in {RootTsx, PackageJson} THEN "d0" ELSE None]
    /\ X = EmptyTree
    /\ targetExists = TRUE
    /\ diffRel = <<"..", "examples", "b2b">>
    /\ skipFiles = {}
    /\ templatePkgJson \in TemplateManifests
    /\ diffPkgJson \in DiffManifests
    /\ pkgJson = NoManifest
    /\ pc = "read"
    /\ writes = {}
    /\ NoSession

SpecManifest == InitManifest /\ [][applyTemplateDiff]_vars

\* ------------------------------------------------------ file events

\* File names the glob *.generated.d.ts matches.
GeneratedNames ==
    { "storefrontapi.generated.d.ts", "customer-accountapi.generated.d.ts" }

\* The glob *.generated.d.ts, matched against the path relative to the
\* watched directory: the star does not cross a directory separator.
IsGeneratedDts(p) == Len(p) = 1 /\ p[1] \in GeneratedNames

\* The ignore option of the diff and the template watch without its
\* *.generated.d.ts entry.
SourceIgnoreNoGenerated(p) ==
    \/ Under(<<"package.json">>, p)
    \/ Under(<<"tsconfig.json">>, p)
    \/ Under(<<".shopify">>, p)

\* The ignore option of the watch on the diff and on the template
\* directory: ['*.generated.d.ts', 'package.json', 'tsconfig.json',
\* '.shopify'].  A plain name stands for that path below the watched
\* directory and everything under it.
SourceIgnore(p) ==
    \/ IsGeneratedDts(p)
    \/ Under(<<"package.json">>, p)
    \/ Under(<<"tsconfig.json">>, p)
    \/ Under(<<".shopify">>, p)

\* The target watch with the negation of its ignore glob dropped.
TargetIgnoreNotNegated(p) == IsGeneratedDts(p)

\* The ignore option of the watch on the target directory:
\* ['!*.generated.d.ts'], everything but the generated declarations.
TargetIgnore(p) == ~IsGeneratedDts(p)

\* The watch on directory dir ignores the path p.
Ignored(dir, p) == IF dir = "target" THEN TargetIgnore(p) ELSE SourceIgnore(p)

\* The type of the event a change of a file from old to new raises.
EventType(old, new) ==
    IF new = None THEN "delete" ELSE IF old = None THEN "create" ELSE "update"

\* A fixed enumeration of the paths, the order in which an operation on a
\* whole directory reports its files.
PathSeq ==
    << RootTsx, Readme, Changelog, DistIndex, XTurboFile, PackageJson,
       TsConfig, ShopifyConf, GeneratedDts, CustomerDts, DotEnv >>

\* The events the watch on dir raises when the files touched change from the
\* tree old to the tree new; n numbers the events.
RECURSIVE RaiseFrom(_, _, _, _, _, _)
RaiseFrom(i, dir, touched, old, new, n) ==
    IF i > Len(PathSeq) THEN <<>>
    ELSE LET p == PathSeq[i]
         IN  IF /\ p \in touched
                /\ sub[dir] = "on"
                /\ ~Ignored(dir, p)
                /\ (old[p] # None \/ new[p] # None)
             THEN << [id |-> n + 1, type |-> EventType(old[p], new[p]),
                      path |-> p] >>
                  \o RaiseFrom(i + 1, dir, touched, old, new, n + 1)
             ELSE RaiseFrom(i + 1, dir, touched, old, new, n)

Raise(dir, touched, old, new) == RaiseFrom(1, dir, touched, old, new, nEvents)

\* The tree with the file p set to the content c (None: removed).
Put(tree, p, c) == [tree EXCEPT ![p] = c]

\* The tree without the files at or under the path dir.
RemoveUnder(tree, dir) ==
    [p \in AllPaths |-> IF Under(dir, p) THEN None ELSE tree[p]]

\* The paths at or under dir that hold a file in the tree.
FilesUnder(tree, dir) == { p \in Files(tree) : Under(dir, p) }

\* -------------------------------------------- prepareDiffDirectory

\* createSymlink(await getRepoNodeModules(), targetDirectory/node_modules)
CreateSymlink ==
    /\ pc = "applied"
    /\ pc' = "import"
    /\ writes' = writes \cup
         { Write("target", <<"node_modules">>, "createSymlink") }
    /\ UNCHANGED <<T, D, X, targetExists, diffRel, skipFiles, manifests>>
    /\ UNCHANGED <<watchVars, callVars>>

\* watch ? await import('@parcel/watcher').catch(log) : undefined, followed
\* by the three calls pw?.subscribe(...), which start together.
ImportWatcher ==
    /\ pc = "import"
    /\ \E loaded \in BOOLEAN :
         /\ loaded => watch
         /\ pw' = IF loaded THEN "module" ELSE "undefined"
         /\ sub' = [w \in Watches |-> IF loaded THEN "pending" ELSE "none"]
    /\ pc' = "subscribe"
    /\ UNCHANGED <<T, D, X, targetExists, diffRel, skipFiles, manifests,
                   writes>>
    /\ UNCHANGED <<watch, pending, tasks, nEvents, edits, unhandled, lastCall>>
    /\ UNCHANGED callVars

\* One of the three pw.subscribe(...) promises settles: the watch is
\* subscribed, or the subscription is rejected.
Subscribe(w) ==
    /\ pc \in {"subscribe", "threw"}
    /\ sub[w] = "pending"
    /\ \E ok \in BOOLEAN : sub' = [sub EXCEPT ![w] = IF ok THEN "on" ELSE "rejected"]
    /\ UNCHANGED <<T, D, X, targetExists, diffRel, skipFiles, manifests, pc,
                   writes>>
    /\ UNCHANGED <<watch, pw, pending, tasks, nEvents, edits, unhandled, lastCall>>
    /\ UNCHANGED callVars

\* await Promise.all([...]) of the three subscriptions is fulfilled and
\* prepareDiffDirectory returns its handle.
Return ==
    /\ pc = "subscribe"
    /\ \A w \in Watches : sub[w] \in {"none", "on"}
    /\ pc' = "returned"
    /\ UNCHANGED <<T, D, X, targetExists, diffRel, skipFiles, manifests,
                   writes>>
    /\ UNCHANGED <<watchVars, callVars>>

\* await Promise.all([...]) is rejected by the first rejected subscription:
\* nothing catches it and prepareDiffDirectory throws.
Throw ==
    /\ pc = "subscribe"
    /\ \E w \in Watches : sub[w] = "rejected"
    /\ pc' = "threw"
    /\ UNCHANGED <<T, D, X, targetExists, diffRel, skipFiles, manifests,
                   writes>>
    /\ UNCHANGED <<watchVars, callVars>>

\* ------------------------------------------------------ the watches

\* The paths the developer's editor changes in each directory, and with
\* them the code generator's output in the target.
EditPaths(dir) ==
    CASE dir = "template" -> { RootTsx, Readme }
      [] dir = "diff"     -> { RootTsx, Readme, DotEnv }
      [] dir = "target"   -> { GeneratedDts }

\* The same, with the output of a build and of a link in the target.
SessionEditPaths(dir) ==
    IF dir = "target" THEN { GeneratedDts, DistIndex, ShopifyConf }
                      ELSE EditPaths(dir)

\* The content an external edit writes in each directory.
EditContent(dir) ==
    CASE dir = "template" -> "t1"
      [] dir = "diff"     -> "d1"
      [] dir = "target"   -> "x1"

Tree(dir) ==
    CASE dir = "template" -> T
      [] dir = "diff"     -> D
      [] dir = "target"   -> X

\* A file of one of the three directories is written or deleted from
\* outside; the watch on the directory raises an event.
EditStep(dir, p, c) ==
    /\ pc = "returned"
    /\ cleanupPc = "idle" /\ cleanupCalls = 0
    /\ c \in {None, EditContent(dir)}
    /\ c = None => Tree(dir)[p] # None
    /\ dir = "target" => targetExists
    /\ LET new == Put(Tree(dir), p, c)
           evs == Raise(dir, {p}, Tree(dir), new)
       IN  /\ T' = IF dir = "template" THEN new ELSE T
           /\ D' = IF dir = "diff" THEN new ELSE D
           /\ X' = IF dir = "target" THEN new ELSE X
           /\ pending' = [pending EXCEPT ![dir] = @ \o evs]
           /\ nEvents' = nEvents + Len(evs)
    /\ edits' = edits + 1
    /\ UNCHANGED <<targetExists, diffRel, skipFiles, manifests, pc, writes>>
    /\ UNCHANGED <<watch, pw, sub, tasks, unhandled, lastCall>>
    /\ UNCHANGED callVars

\* The developer edits a file while the watches run.
ExternalEdit(dir, p, c) ==
    /\ edits < MaxEdits
    /\ p \in EditPaths(dir)
    /\ EditStep(dir, p, c)

\* The developer, the code generator, the build or the link writes or
\* deletes a file during a session.
SessionEdit(dir, p, c) ==
    /\ Stimuli < MaxSession
    /\ p \in SessionEditPaths(dir)
    /\ EditStep(dir, p, c)

\* The promise a watch callback creates for one event of a batch.  The
\* callbacks of the target watch and, for a create or an update, of the diff
\* watch call copyFile at once; the others first call fileExists.
NewTask(w, e) ==
    [ id |-> e.id, dir |-> w, type |-> e.type, path |-> e.path,
      at |-> IF w = "target" \/ (w = "diff" /\ e.type # "delete")
             THEN "copy" ELSE "exists",
      exists |-> FALSE ]

\* The backend calls the callback of a watch with a batch of events:
\* events.map(...) starts one promise per event.
Deliver(w) ==
    /\ sub[w] = "on"
    /\ pending[w] # <<>>
    /\ tasks' = tasks \cup { NewTask(w, pending[w][i]) : i \in 1..Len(pending[w]) }
    /\ pending' = [pending EXCEPT ![w] = <<>>]
    /\ UNCHANGED <<T, D, X, targetExists, diffRel, skipFiles, manifests, pc,
                   writes>>
    /\ UNCHANGED <<watch, pw, sub, nEvents, edits, unhandled, lastCall>>
    /\ UNCHANGED callVars

\* A backend error that also ends the watch.
BackendErrorTearsDown(w) ==
    /\ sub[w] = "on"
    /\ pending[w] # <<>>
    /\ pending' = [pending EXCEPT ![w] = <<>>]
    /\ sub' = [sub EXCEPT ![w] = "off"]
    /\ UNCHANGED <<T, D, X, targetExists, diffRel, skipFiles, manifests, pc,
                   writes>>
    /\ UNCHANGED <<watch, pw, tasks, nEvents, edits, unhandled, lastCall>>
    /\ UNCHANGED callVars

\* The backend calls the callback of a watch with an error: console.error and
\* return; the events of that batch are lost.
BackendError(w) ==
    /\ sub[w] = "on"
    /\ pending[w] # <<>>
    /\ pending' = [pending EXCEPT ![w] = <<>>]
    /\ UNCHANGED <<T, D, X, targetExists, diffRel, skipFiles, manifests, pc,
                   writes>>
    /\ UNCHANGED <<watch, pw, sub, tasks, nEvents, edits, unhandled, lastCall>>
    /\ UNCHANGED callVars

Call(t, op, from) == [dir |-> t.dir, type |-> t.type, op |-> op, from |-> from]

\* Target watch, any event: copyFile(event.path, diffDirectory/relative).
\* The promise is returned into the array events.map builds and dropped: a
\* rejection (the source is missing) is caught nowhere.
TargetCopy(t) ==
    /\ t \in tasks /\ t.dir = "target" /\ t.at = "copy"
    /\ LET ok   == X[t.path] # None
           new  == IF ok THEN Put(D, t.path, X[t.path]) ELSE D
           evs  == IF ok THEN Raise("diff", {t.path}, D, new) ELSE <<>>
       IN  /\ D' = new
           /\ writes' = IF ok THEN writes \cup {Write("diff", t.path, "target watch")}
                              ELSE writes
           /\ pending' = [pending EXCEPT !["diff"] = @ \o evs]
           /\ nEvents' = nEvents + Len(evs)
           /\ unhandled' = (unhandled \/ ~ok)
    /\ tasks' = tasks \ {t}
    /\ lastCall' = Call(t, "copyFile", "target")
    /\ UNCHANGED <<T, X, targetExists, diffRel, skipFiles, manifests, pc>>
    /\ UNCHANGED <<watch, pw, sub, edits>>
    /\ UNCHANGED callVars

\* A copy into the target by a handler: copyFile(from[p], targetFile).  It
\* creates the missing directories on the way; it fails when the source is
\* missing.  swallowed tells whether a .catch follows.
CopyToTarget(t, from, by, swallowed) ==
    LET ok  == Tree(from)[t.path] # None
        new == IF ok THEN Put(X, t.path, Tree(from)[t.path]) ELSE X
        evs == IF ok THEN Raise("target", {t.path}, X, new) ELSE <<>>
    IN  /\ X' = new
        /\ targetExists' = (targetExists \/ ok)
        /\ writes' = IF ok THEN writes \cup {Write("target", t.path, by)}
                           ELSE writes
        /\ pending' = [pending EXCEPT !["target"] = @ \o evs]
        /\ nEvents' = nEvents + Len(evs)
        /\ unhandled' = (unhandled \/ (~ok /\ ~swallowed))

\* A removal from the target that removes nothing.
RemoveFromTargetNoop(t, by) ==
    /\ X' = X
    /\ targetExists' = targetExists
    /\ writes' = writes
    /\ pending' = pending
    /\ nEvents' = nEvents
    /\ unhandled' = unhandled

\* A removal from the target by a handler: remove(targetFile).catch(...).
\* Removing a path that does not exist is not an error.
RemoveFromTarget(t, by) ==
    LET new == Put(X, t.path, None)
        evs == Raise("target", {t.path}, X, new)
    IN  /\ X' = new
        /\ targetExists' = targetExists
        /\ writes' = IF X[t.path] # None
                     THEN writes \cup {Write("target", t.path, by)} ELSE writes
        /\ pending' = [pending EXCEPT !["target"] = @ \o evs]
        /\ nEvents' = nEvents + Len(evs)
        /\ unhandled' = unhandled

\* Diff watch, create or update: copyFile(event.path, targetFile), not caught.
DiffCopy(t) ==
    /\ t \in tasks /\ t.dir = "diff" /\ t.at = "copy"
    /\ CopyToTarget(t, "diff", "diff watch", FALSE)
    /\ tasks' = tasks \ {t}
    /\ lastCall' = Call(t, "copyFile", "diff")
    /\ UNCHANGED <<T, D, diffRel, skipFiles, manifests, pc>>
    /\ UNCHANGED <<watch, pw, sub, edits>>
    /\ UNCHANGED callVars

\* Diff watch, delete: fileExists(fileInTemplate) is answered.
DiffExists(t) ==
    /\ t \in tasks /\ t.dir = "diff" /\ t.at = "exists"
    /\ tasks' = (tasks \ {t}) \cup
                  { [t EXCEPT !.at = "act", !.exists = (T[t.path] # None)] }
    /\ UNCHANGED <<T, D, X, targetExists, diffRel, skipFiles, manifests, pc,
                   writes>>
    /\ UNCHANGED <<watch, pw, sub, pending, nEvents, edits, unhandled, lastCall>>
    /\ UNCHANGED callVars

\* The delete branch of the diff watch with its two outcomes exchanged.
DiffRestoreSwapped(t) ==
    IF t.exists
    THEN /\ RemoveFromTarget(t, "diff watch")
         /\ lastCall' = Call(t, "remove", "-")
    ELSE /\ CopyToTarget(t, "template", "diff watch", TRUE)
         /\ lastCall' = Call(t, "copyFile", "template")

\* exists ? copyFile(fileInTemplate, targetFile) : remove(targetFile),
\* followed by .catch(() => {}).
DiffRestoreOrRemove(t) ==
    IF t.exists
    THEN /\ CopyToTarget(t, "template", "diff watch", TRUE)
         /\ lastCall' = Call(t, "copyFile", "template")
    ELSE /\ RemoveFromTarget(t, "diff watch")
         /\ lastCall' = Call(t, "remove", "-")

\* Diff watch, delete: the then-branch after fileExists.
DiffRestore(t) ==
    /\ t \in tasks /\ t.dir = "diff" /\ t.at = "act"
    /\ DiffRestoreOrRemove(t)
    /\ tasks' = tasks \ {t}
    /\ UNCHANGED <<T, D, diffRel, skipFiles, manifests, pc>>
    /\ UNCHANGED <<watch, pw, sub, edits>>
    /\ UNCHANGED callVars

\* The priority check of the template watch left out.
TemplateSkipsNever(t) == FALSE

\* if (await fileExists(fileInDiff)) return;
TemplateSkips(t) == D[t.path] # None

\* Template watch, any event: fileExists(fileInDiff) is answered; a file in
\* the diff directory has priority and ends the handler.
TemplateExists(t) ==
    /\ t \in tasks /\ t.dir = "template" /\ t.at = "exists"
    /\ IF TemplateSkips(t)
       THEN /\ tasks' = tasks \ {t}
            /\ lastCall' = Call(t, "none", "-")
       ELSE /\ tasks' = (tasks \ {t}) \cup { [t EXCEPT !.at = "act"] }
            /\ lastCall' = lastCall
    /\ UNCHANGED <<T, D, X, targetExists, diffRel, skipFiles, manifests, pc,
                   writes>>
    /\ UNCHANGED <<watch, pw, sub, pending, nEvents, edits, unhandled>>
    /\ UNCHANGED callVars

\* Template watch: delete ? remove(targetFile).catch(() => {})
\*                        : copyFile(event.path, targetFile), not caught.
TemplateAct(t) ==
    /\ t \in tasks /\ t.dir = "template" /\ t.at = "act"
    /\ IF t.type = "delete"
       THEN /\ RemoveFromTarget(t, "template watch")
            /\ lastCall' = Call(t, "remove", "-")
       ELSE /\ CopyToTarget(t, "template", "template watch", FALSE)
            /\ lastCall' = Call(t, "copyFile", "template")
    /\ tasks' = tasks \ {t}
    /\ UNCHANGED <<T, D, diffRel, skipFiles, manifests, pc>>
    /\ UNCHANGED <<watch, pw, sub, edits>>
    /\ UNCHANGED callVars

\* The three directories, as one value.
Dirs == [T |-> T, D |-> D, X |-> X]

\* The target watch's callback for one event, run to its end on the
\* directories s: copyFile(event.path, diffDirectory/relative), whatever the
\* type of the event; the copy fails when the source is missing.
TargetHandled(s, type, p) ==
    IF s.X[p] # None THEN [s EXCEPT !.D = Put(s.D, p, s.X[p])] ELSE s

\* The diff watch's callback for one event, run to its end.
DiffHandled(s, type, p) ==
    IF type = "delete"
    THEN IF s.T[p] # None
         THEN [s EXCEPT !.X = Put(s.X, p, s.T[p])]
         ELSE [s EXCEPT !.X = Put(s.X, p, None)]
    ELSE IF s.D[p] # None THEN [s EXCEPT !.X = Put(s.X, p, s.D[p])] ELSE s

\* The template watch's callback with a priority check that asks whether the
\* diff directory holds any file at all.
TemplateHandledAnyDiff(s, type, p) ==
    IF Files(s.D) # {} THEN s
    ELSE IF type = "delete" THEN [s EXCEPT !.X = Put(s.X, p, None)]
    ELSE IF s.T[p] # None THEN [s EXCEPT !.X = Put(s.X, p, s.T[p])] ELSE s

\* The template watch's callback for one event, run to its end.
TemplateHandled(s, type, p) ==
    IF s.D[p] # None THEN s
    ELSE IF type = "delete" THEN [s EXCEPT !.X = Put(s.X, p, None)]
    ELSE IF s.T[p] # None THEN [s EXCEPT !.X = Put(s.X, p, s.T[p])] ELSE s

\* The callback of the watch w for one event of type type on the path p.
Handled(s, w, type, p) ==
    CASE w = "target"   -> TargetHandled(s, type, p)
      [] w = "diff"     -> DiffHandled(s, type, p)
      [] w = "template" -> TemplateHandled(s, type, p)

\* ------------------------------------------------------------ cleanup

\* The subscriptions a call of cleanup() unsubscribes: sub?.unsubscribe()
\* skips the undefined ones.
Subscribed == { w \in Watches : sub[w] \in {"on", "off"} }

\* cleanup(), first statement:
\* await Promise.all(subscriptions.map((sub) => sub?.unsubscribe())).
\* Every unsubscribe is called; those of the watches in failing are rejected.
\* With a rejection the await throws and cleanup() ends there.
CleanupUnsubscribe(failing) ==
    /\ pc = "returned"
    /\ cleanupPc = "idle" /\ pull = "idle"
    /\ Stimuli < MaxSession
    /\ failing \subseteq Subscribed
    /\ Cardinality(failing) <= MaxFailing
    /\ sub' = [w \in Watches |->
                 IF w \in Subscribed \ failing THEN "off" ELSE sub[w]]
    /\ pending' = [w \in Watches |->
                     IF w \in Subscribed \ failing THEN <<>> ELSE pending[w]]
    /\ IF failing = {}
       THEN /\ cleanupPc' = "remove"
            /\ UNCHANGED <<cleanupCalls, cleanupResult, removeAttempted>>
       ELSE /\ cleanupPc' = "idle"
            /\ cleanupCalls' = cleanupCalls + 1
            /\ cleanupResult' = "threw"
            /\ removeAttempted' = FALSE
    /\ UNCHANGED <<T, D, X, targetExists, diffRel, skipFiles, manifests, pc,
                   writes>>
    /\ UNCHANGED <<watch, pw, tasks, nEvents, edits, unhandled, lastCall>>
    /\ UNCHANGED <<pull, pulls>>

\* cleanup(), second statement: await remove(targetDirectory).
CleanupRemove ==
    /\ cleanupPc = "remove"
    /\ LET evs == Raise("target", AllPaths, X, EmptyTree)
       IN  /\ pending' = [pending EXCEPT !["target"] = @ \o evs]
           /\ nEvents' = nEvents + Len(evs)
    /\ X' = EmptyTree
    /\ targetExists' = FALSE
    /\ writes' = writes \cup { Write("target", <<>>, "cleanup") }
    /\ cleanupPc' = "idle"
    /\ cleanupCalls' = cleanupCalls + 1
    /\ cleanupResult' = "returned"
    /\ removeAttempted' = TRUE
    /\ UNCHANGED <<T, D, diffRel, skipFiles, manifests, pc>>
    /\ UNCHANGED <<watch, pw, sub, tasks, edits, unhandled, lastCall>>
    /\ UNCHANGED <<pull, pulls>>

\* ----------------------------------------------------------- pull-back

ShopifyDir == <<".shopify">>
DistDir    == <<"dist">>

\* The tree dest after copyDirectory(src/dir, dest/dir, {overwrite: true}).
CopyUnder(src, dest, dir) ==
    [p \in AllPaths |->
        IF Under(dir, p) /\ src[p] # None THEN src[p] ELSE dest[p]]

\* A pull-back operation changes the diff directory from D to new, touching
\* the given files.
PullWrites(new, touched, by) ==
    LET evs == Raise("diff", touched, D, new)
    IN  /\ D' = new
        /\ writes' = writes \cup { Write("diff", p, by) : p \in touched }
        /\ pending' = [pending EXCEPT !["diff"] = @ \o evs]
        /\ nEvents' = nEvents + Len(evs)

\* A pull-back operation may be called on the handle prepareDiffDirectory
\* returned.
MayPull ==
    /\ pc = "returned"
    /\ pull = "idle" /\ cleanupPc = "idle" /\ cleanupCalls = 0
    /\ Stimuli < MaxSession

\* copyShopifyConfig(): if (!(await fileExists(source))) return;
ShopifyCheck ==
    /\ MayPull
    /\ pulls' = pulls + 1
    /\ pull' = IF FilesUnder(X, ShopifyDir) # {} THEN "shopify:remove" ELSE "idle"
    /\ UNCHANGED <<T, D, X, targetExists, diffRel, skipFiles, manifests, pc,
                   writes>>
    /\ UNCHANGED watchVars
    /\ UNCHANGED <<cleanupPc, cleanupCalls, cleanupResult, removeAttempted>>

\* copyShopifyConfig(): await remove(target)
ShopifyRemove ==
    /\ pull = "shopify:remove"
    /\ PullWrites(RemoveUnder(D, ShopifyDir), FilesUnder(D, ShopifyDir),
                  "copyShopifyConfig")
    /\ pull' = "shopify:copy"
    /\ UNCHANGED <<T, X, targetExists, diffRel, skipFiles, manifests, pc>>
    /\ UNCHANGED <<watch, pw, sub, tasks, edits, unhandled, lastCall>>
    /\ UNCHANGED <<cleanupPc, cleanupCalls, cleanupResult, removeAttempted,
                   pulls>>

\* copyShopifyConfig(): await copyDirectory(source, target, {overwrite: true});
\* it is rejected when the source is gone.
ShopifyCopy ==
    /\ pull = "shopify:copy"
    /\ PullWrites(CopyUnder(X, D, ShopifyDir), FilesUnder(X, ShopifyDir),
                  "copyShopifyConfig")
    /\ pull' = "idle"
    /\ UNCHANGED <<T, X, targetExists, diffRel, skipFiles, manifests, pc>>
    /\ UNCHANGED <<watch, pw, sub, tasks, edits, unhandled, lastCall>>
    /\ UNCHANGED <<cleanupPc, cleanupCalls, cleanupResult, removeAttempted,
                   pulls>>

\* copyDiffBuild(): await remove(target); the two copies then start together.
BuildRemove ==
    /\ MayPull
    /\ pulls' = pulls + 1
    /\ PullWrites(RemoveUnder(D, DistDir), FilesUnder(D, DistDir),
                  "copyDiffBuild")
    /\ pull' = "build:both"
    /\ UNCHANGED <<T, X, targetExists, diffRel, skipFiles, manifests, pc>>
    /\ UNCHANGED <<watch, pw, sub, tasks, edits, unhandled, lastCall>>
    /\ UNCHANGED <<cleanupPc, cleanupCalls, cleanupResult, removeAttempted>>

\* copyDiffBuild(): copyDirectory(targetDirectory/dist, target,
\* {overwrite: true}); it is rejected when the target has no dist.
BuildCopyDist ==
    /\ pull \in {"build:both", "build:dist"}
    /\ PullWrites(CopyUnder(X, D, DistDir), FilesUnder(X, DistDir),
                  "copyDiffBuild")
    /\ pull' = IF pull = "build:both" THEN "build:env" ELSE "idle"
    /\ UNCHANGED <<T, X, targetExists, diffRel, skipFiles, manifests, pc>>
    /\ UNCHANGED <<watch, pw, sub, tasks, edits, unhandled, lastCall>>
    /\ UNCHANGED <<cleanupPc, cleanupCalls, cleanupResult, removeAttempted,
                   pulls>>

\* copyDiffBuild(): copyFile(targetDirectory/.env, diffDirectory/.env); it is
\* rejected when the target has no .env.
BuildCopyEnv ==
    /\ pull \in {"build:both", "build:env"}
    /\ PullWrites(CopyUnder(X, D, DotEnv), FilesUnder(X, DotEnv),
                  "copyDiffBuild")
    /\ pull' = IF pull = "build:both" THEN "build:dist" ELSE "idle"
    /\ UNCHANGED <<T, X, targetExists, diffRel, skipFiles, manifests, pc>>
    /\ UNCHANGED <<watch, pw, sub, tasks, edits, unhandled, lastCall>>
    /\ UNCHANGED <<cleanupPc, cleanupCalls, cleanupResult, removeAttempted,
                   pulls>>

\* ------------------------------------------------------- the session

\* The template and the diff directory of the session.
SessionTemplate ==
    [p \in AllPaths |->
        IF p \in {RootTsx, Readme, Changelog, PackageJson, TsConfig}
        THEN "t0" ELSE None]

SessionDiff ==
    [p \in AllPaths |->
        IF p \in {RootTsx, PackageJson, DotEnv, DistIndex} THEN "d0" ELSE None]

\* prepareDiffDirectory(diffDirectory, watch) is called: temporaryDirectory()
\* has created the empty target directory.
Init ==
    /\ T = SessionTemplate
    /\ D = SessionDiff
    /\ X = EmptyTree
    /\ targetExists = TRUE
    /\ diffRel = <<"..", "examples", "b2b">>
    /\ skipFiles = {Readme}
    /\ templatePkgJson = SessionTemplatePkg
    /\ diffPkgJson = SessionDiffPkg
    /\ pkgJson = NoManifest
    /\ pc = "read"
    /\ writes = {}
    /\ watch \in BOOLEAN
    /\ pw = "unset"
    /\ sub = [w \in Watches |-> "none"]
    /\ pending = [w \in Watches |-> <<>>]
    /\ tasks = {}
    /\ nEvents = 0
    /\ edits = 0
    /\ unhandled = FALSE
    /\ lastCall = NoCall
    /\ cleanupPc = "idle"
    /\ cleanupCalls = 0
    /\ cleanupResult = "none"
    /\ removeAttempted = FALSE
    /\ pull = "idle"
    /\ pulls = 0

\* prepareDiffDirectory up to its return.
Prepare ==
    \/ ReadManifests
    \/ CopyTemplate
    \/ CopyDiff
    \/ mergePackageJson
    \/ CreateSymlink
    \/ ImportWatcher
    \/ \E w \in Watches : Subscribe(w)
    \/ Return
    \/ Throw

\* The callbacks of the three watches.
Handlers ==
    \/ \E w \in Watches : Deliver(w)
    \/ \E w \in Watches : BackendError(w)
    \/ \E t \in tasks : TargetCopy(t)
    \/ \E t \in tasks : DiffCopy(t)
    \/ \E t \in tasks : DiffExists(t)
    \/ \E t \in tasks : DiffRestore(t)
    \/ \E t \in tasks : TemplateExists(t)
    \/ \E t \in tasks : TemplateAct(t)

\* The operations of the handle prepareDiffDirectory returns.
Handle ==
    \/ \E failing \in SUBSET Watches : CleanupUnsubscribe(failing)
    \/ CleanupRemove
    \/ ShopifyCheck
    \/ ShopifyRemove
    \/ ShopifyCopy
    \/ BuildRemove
    \/ BuildCopyDist
    \/ BuildCopyEnv

\* The whole session.
Next ==
    \/ Prepare
    \/ Handlers
    \/ Handle
    \/ \E dir \in Watches, p \in AllPaths, c \in Contents \cup {None} :
         SessionEdit(dir, p, c)

\* Live sync alone: the session up to its return, the edits and the watches.
NextSync ==
    \/ Prepare
    \/ Handlers
    \/ \E dir \in Watches, p \in AllPaths, c \in Contents \cup {None} :
         ExternalEdit(dir, p, c)

SpecSync == Init /\ [][NextSync]_vars

\* Live sync with the event loop running: a callback that can run and a
\* promise that can settle eventually do.
SpecSyncLive == SpecSync /\ WF_vars(Handlers)

\* ----------------------------------------------------- one batch

EventTypes == { "create", "update", "delete" }

\* The paths the events of a batch of the watch w are about: two paths the
\* watch does not ignore.
BatchPaths(w) ==
    IF w = "target" THEN <<GeneratedDts, CustomerDts>> ELSE <<RootTsx, Readme>>

\* A batch of the watch w: at most one event for a path; f gives the type of
\* the event of each path, "-" for none.
BatchOf(w, f) ==
    LET ps == BatchPaths(w)
        ev(i) == IF f[i] = "-" THEN <<>>
                 ELSE << [id |-> i, type |-> f[i], path |-> ps[i]] >>
    IN  ev(1) \o ev(2)

\* The directories a batch may meet: any files in the template and in the
\* diff directory, and in the target files from either and generated
\* declarations.
BatchTemplates == TreesOver({RootTsx, Readme}, "t0")

BatchDiffs == TreesOver({RootTsx, Readme}, "d0")

BatchTargets ==
    { [p \in AllPaths |->
          CASE p = RootTsx  -> a
            [] p = Readme   -> b
            [] p = GeneratedDts -> IF g THEN "x1" ELSE None
            [] p = CustomerDts  -> IF h THEN "x1" ELSE None
            [] OTHER -> None] :
        a \in {None, "t0", "d0"}, b \in {None, "t0", "d0"},
        g \in BOOLEAN, h \in BOOLEAN }

\* The directories that matter to a batch of the watch w: for the target
\* watch the generated declarations of the target, beside a merged project;
\* for the other two the files of the three directories at the paths of the
\* batch.
BatchMeets(w) ==
    IF w = "target"
    THEN /\ Files(T) = {RootTsx, Readme} /\ Files(D) = {RootTsx, Readme}
         /\ X[RootTsx] = "d0" /\ X[Readme] = "d0"
    ELSE X[GeneratedDts] = None /\ X[CustomerDts] = None

\* The watches run and the backend is about to deliver one batch to one of
\* them.
InitBatch ==
    /\ T \in BatchTemplates
    /\ D \in BatchDiffs
    /\ X \in BatchTargets
    /\ targetExists = TRUE
    /\ diffRel = <<"..", "examples", "b2b">>
    /\ skipFiles = {}
    /\ templatePkgJson = SessionTemplatePkg
    /\ diffPkgJson = SessionDiffPkg
    /\ pkgJson = onResult(MergeManifests(SessionTemplatePkg, SessionDiffPkg))
    /\ pc = "returned"
    /\ writes = {}
    /\ watch = TRUE
    /\ pw = "module"
    /\ sub = [w \in Watches |-> "on"]
    /\ \E w \in Watches, f \in [1..2 -> EventTypes \cup {"-"}] :
         /\ pending = [v \in Watches |-> IF v = w THEN BatchOf(w, f) ELSE <<>>]
         /\ BatchMeets(w)
    /\ tasks = {}
    /\ nEvents = 2
    /\ edits = 0
    /\ unhandled = FALSE
    /\ lastCall = NoCall
    /\ cleanupPc = "idle"
    /\ cleanupCalls = 0
    /\ cleanupResult = "none"
    /\ removeAttempted = FALSE
    /\ pull = "idle"
    /\ pulls = 0

\* The batch is delivered and the promises of its events run in any order.
NextBatch ==
    \/ \E w \in Watches : Deliver(w)
    \/ \E t \in tasks : TargetCopy(t)
    \/ \E t \in tasks : DiffCopy(t)
    \/ \E t \in tasks : DiffExists(t)
    \/ \E t \in tasks : DiffRestore(t)
    \/ \E t \in tasks : TemplateExists(t)
    \/ \E t \in tasks : TemplateAct(t)

SpecBatch == InitBatch /\ [][NextBatch]_vars

\* ------------------------------------------- copyDiffBuild under sync

\* The session after a build: the watches run, the target holds the build
\* output in dist, the diff directory holds the dist of an earlier build, and
\* nothing is left to handle.  The template may ship a dist of its own and
\* the target may have lost its .env.
InitBuild ==
    /\ \E d \in {None, "t0"} : T = Put(SessionTemplate, DistIndex, d)
    /\ D = SessionDiff
    /\ \E e \in {None, "d0"} :
         X = [p \in AllPaths |->
                CASE p = RootTsx     -> "d0"
                  [] p = Changelog   -> None
                  [] p = TsConfig    -> "t0"
                  [] p = PackageJson -> "merged"
                  [] p = DistIndex   -> "x1"
                  [] p = DotEnv      -> e
                  [] OTHER           -> None]
    /\ targetExists = TRUE
    /\ diffRel = <<"..", "examples", "b2b">>
    /\ skipFiles = {Readme}
    /\ templatePkgJson = SessionTemplatePkg
    /\ diffPkgJson = SessionDiffPkg
    /\ pkgJson = onResult(MergeManifests(SessionTemplatePkg, SessionDiffPkg))
    /\ pc = "returned"
    /\ writes = {}
    /\ watch = TRUE
    /\ pw = "module"
    /\ sub = [w \in Watches |-> "on"]
    /\ pending = [w \in Watches |-> <<>>]
    /\ tasks = {}
    /\ nEvents = 0
    /\ edits = 0
    /\ unhandled = FALSE
    /\ lastCall = NoCall
    /\ cleanupPc = "idle"
    /\ cleanupCalls = 0
    /\ cleanupResult = "none"
    /\ removeAttempted = FALSE
    /\ pull = "idle"
    /\ pulls = 0

\* copyDiffBuild() and the diff watch's callback for the events it raises.
NextBuild ==
    \/ BuildRemove
    \/ BuildCopyDist
    \/ BuildCopyEnv
    \/ Deliver("diff")
    \/ \E t \in tasks : DiffCopy(t)
    \/ \E t \in tasks : DiffExists(t)
    \/ \E t \in tasks : DiffRestore(t)

SpecBuild == InitBuild /\ [][NextBuild]_vars

Spec == Init /\ [][Next]_vars

\* ================================================================ claims

\* The paths (files and directories) of a tree.
PathsOf(tree) ==
    UNION { { SubSeq(p, 1, k) : k \in 1..Len(p) } : p \in Files(tree) }

\* A path the template copy must leave out: it matches the template
\* exclusion pattern or is listed in skipFiles.
TemplateExcluded(q) == ReTest("template", q) \/ q \in skipFiles

\* C1 as claimed: after applyTemplateDiff on an empty target, every path that
\* is a file in both the template and the diff, other than package.json,
\* tsconfig.json and the paths inside dist, node_modules, .cache or .turbo,
\* has the diff's content in the target.
C1_DiffAlwaysWins ==
    pc = "applied" =>
        \A p \in Files(T) \cap Files(D) :
            \/ p \in {PackageJson, TsConfig}
            \/ \E i \in 1..Len(p) :
                  p[i] \in {"dist", "node_modules", ".cache", ".turbo"}
            \/ X[p] = D[p]

\* C2 as claimed: after applyTemplateDiff, every path of the template tree
\* that matches the template exclusion pattern or is listed in skipFiles is
\* absent from the target, whatever the diff tree holds.
C2_ExcludedAbsent ==
    pc = "applied" =>
        \A q \in PathsOf(T) :
            TemplateExcluded(q) => \A r \in Files(X) : ~Under(q, r)

\* C2 amended: after applyTemplateDiff on an empty target, nothing of the
\* template at or under an excluded path reaches the target: the target holds
\* there only the files the diff copy transferred, with the diff's content,
\* and nothing at all when the diff tree has no file there.
C2_ExcludedNotFromTemplate ==
    pc = "applied" =>
        \A q \in PathsOf(T) :
            TemplateExcluded(q) =>
                \A r \in AllPaths :
                    Under(q, r) /\ X[r] # None =>
                        /\ D[r] # None
                        /\ X[r] = D[r]
                        /\ Included("diff", r)

\* C2's case: a template with a changelog and a skipped README, merged with a
\* diff that brings its own changelog but no README.
C2_Witness ==
    /\ pc = "applied"
    /\ T[Changelog] # None /\ D[Changelog] # None /\ X[Changelog] = D[Changelog]
    /\ Readme \in skipFiles /\ T[Readme] # None /\ D[Readme] = None
    /\ X[Readme] = None
    /\ T[DistIndex] # None /\ X[DistIndex] = None

\* The handler of the event of task t ends with this step.
Finished(t) == t \in tasks /\ \A u \in tasks' : u.id # t.id

\* C3 as claimed: when the diff watch has handled a delete event, the target
\* holds the template's content at that path if the template has the path, and
\* no file there otherwise; a failure of the copy or the removal is swallowed.
C3_DeleteRestoresOrRemoves ==
    [][ \A t \in tasks :
          t.dir = "diff" /\ t.type = "delete" /\ Finished(t) =>
              /\ IF T'[t.path] # None THEN X'[t.path] = T'[t.path]
                                      ELSE X'[t.path] = None
              /\ unhandled' = unhandled ]_vars

\* C3 amended: when the diff watch has handled a delete event, the target
\* holds the template's content at that path if the template had the path when
\* the handler looked and still has it when the handler copies; it holds no
\* file there if the template did not have the path when the handler looked;
\* and it is left as it was, the failed copy swallowed, if the template's file
\* went away in between.
C3_DeleteFollowsCheck ==
    [][ \A t \in tasks :
          t.dir = "diff" /\ t.type = "delete" /\ Finished(t) =>
              /\ t.exists /\ T[t.path] # None => X'[t.path] = T[t.path]
              /\ t.exists /\ T[t.path] = None => X' = X
              /\ ~t.exists => X'[t.path] = None
              /\ unhandled' = unhandled ]_vars

\* C3's case: the diff's app/root.tsx was deleted and the handler has put the
\* template's file back in the target.
C3_Witness ==
    /\ lastCall = [dir |-> "diff", type |-> "delete", op |-> "copyFile",
                   from |-> "template"]
    /\ D[RootTsx] = None
    /\ T[RootTsx] # None
    /\ X[RootTsx] = T[RootTsx]

\* C4: when the template watch handles a create or an update of a path that
\* the diff directory holds at the moment the handler looks, the handler ends
\* there and the target is as it was: nothing is written.
C4_DiffPriorityOnCreate ==
    [][ \A t \in tasks :
          /\ t.dir = "template" /\ t.type \in {"create", "update"}
          /\ t.at = "exists" /\ t \notin tasks'
          /\ D[t.path] # None
          => /\ Finished(t)
             /\ X' = X
             /\ targetExists' = targetExists
             /\ writes' = writes ]_vars

\* C4's case: the template's app/root.tsx was edited, the handler has ended
\* without a file operation, and the target still holds the diff's file.
C4_Witness ==
    /\ lastCall = [dir |-> "template", type |-> "update", op |-> "none",
                   from |-> "-"]
    /\ T[RootTsx] = "t1"
    /\ X[RootTsx] = D[RootTsx]
    /\ tasks = {}

\* C5 as claimed: every call of cleanup() that has ended, also one that saw an
\* unsubscribe fail, has called remove(targetDirectory).
C5_CleanupAlwaysRemoves == cleanupResult # "none" => removeAttempted

\* C6 as claimed: a call of cleanup(), the first or the second, does not raise,
\* and the target directory is gone when the call ends.
C6_CleanupTwice ==
    [][ cleanupCalls' = cleanupCalls + 1 =>
            cleanupResult' = "returned" /\ ~targetExists' ]_vars

\* C7 as claimed: a rejected subscription is not fatal, prepareDiffDirectory
\* does not throw.
C7_SubscribeFailureNotFatal == pc # "threw"

\* C8 as claimed: no failure of an event's copy or delete escapes its handler
\* as an unhandled rejection.
C8_FailuresSwallowed == ~unhandled

\* C9 as claimed: the handler of every delete event attempts to restore the
\* file from another directory or to remove the mirrored copy.
C9_DeleteNeverDropped ==
    [][ \A t \in tasks :
          t.type = "delete" /\ Finished(t) =>
              \/ lastCall'.op = "remove"
              \/ lastCall'.op = "copyFile" /\ lastCall'.from # t.dir ]_vars

\* The operations that may write into the diff directory on request.
PullBacks == { "copyShopifyConfig", "copyDiffBuild" }

\* C10: the system writes nothing under the template directory; under the
\* diff directory the watch handlers write only *.generated.d.ts files, from
\* the target watch, and every other write there is a pull-back's.  The
\* template changes only by an external edit, the diff directory only by an
\* external edit, a pull-back or the target watch's handler.
C10_TemplateReadOnlyDiffNarrow ==
    /\ [](\A w \in writes :
            /\ w.dir # "template"
            /\ w.dir = "diff" =>
                 \/ w.by = "target watch" /\ IsGeneratedDts(w.path)
                 \/ w.by \in PullBacks)
    /\ [][ /\ T' # T => edits' = edits + 1
           /\ D' # D =>
                \/ edits' = edits + 1
                \/ pull' # pull \/ pulls' # pulls
                \/ \E t \in tasks :
                     /\ t.dir = "target" /\ Finished(t) /\ IsGeneratedDts(t.path)
                     /\ \A p \in AllPaths \ {t.path} : D'[p] = D[p] ]_vars

\* C10's case: the target watch has copied a generated declaration into the
\* diff directory and copyDiffBuild has written there too.
C10_Witness ==
    /\ Write("diff", GeneratedDts, "target watch") \in writes
    /\ \E w \in writes : w.dir = "diff" /\ w.by = "copyDiffBuild"
    /\ \E w \in writes : w.dir = "target" /\ w.by = "applyTemplateDiff"

\* The merged document mergePackageJson hands to onResult.
Merged == MergeManifests(templatePkgJson, diffPkgJson)

\* C11 as claimed: in the manifest the merge has written, no white space
\* followed by --diff remains in the build, dev and preview scripts, and the
\* other scripts are as the structural merge left them.
C11_FlagStrippedEverywhere ==
    pc = "applied" =>
        \A k \in ScriptNames :
            IF k \in {"build", "dev", "preview"}
            THEN ~HasFlag(pkgJson.scripts.of[k])
            ELSE pkgJson.scripts.of[k] = Merged.scripts.of[k]

\* C12 as claimed: in the manifest the merge has written, the version of
\* @shopify/cli-hydrogen, where the manifest declares that dependency, is the
\* one the template's manifest declares, or '*' when the template declares
\* none.
C12_CliVersionFromTemplate ==
    pc = "applied" /\ pkgJson.dependencies.of[Cli] # Absent =>
        pkgJson.dependencies.of[Cli] =
            IF templatePkgJson.dependencies.of[Cli] # Absent
            THEN templatePkgJson.dependencies.of[Cli] ELSE "*"

\* No event waits for delivery and no handler is under way.
Quiescent == tasks = {} /\ \A w \in Watches : pending[w] = <<>>

\* C13: the step that ends the handling of an event raises no new event (the
\* file it wrote or removed is ignored by the watch on its directory); while
\* the watches run, the target and the diff directory change only by an
\* external edit or by the step that ends the handling of one event, so an
\* event leads to at most one file operation; and the system becomes
\* quiescent once the external edits stop.
C13_NoPropagationLoop ==
    /\ [][ (\E t \in tasks : Finished(t)) =>
               nEvents' = nEvents /\ pending' = pending ]_vars
    /\ [][ pc = "returned" /\ edits' = edits /\ (X' # X \/ D' # D) =>
               \E t \in tasks : Finished(t) ]_vars
    /\ <>[]Quiescent

\* C13's case: the target watch has copied a generated declaration into the
\* diff directory, the diff watch has copied a file into the target, and
\* nothing is left to handle.
C13_Witness ==
    /\ Write("diff", GeneratedDts, "target watch") \in writes
    /\ Write("target", RootTsx, "diff watch") \in writes
    /\ nEvents = 2
    /\ Quiescent

\* C14 as claimed: when the template watch has handled a delete event, the
\* handler has called remove on the target's path, the target has no file
\* there, and no failure has escaped.
C14_TemplateDeleteRemoves ==
    [][ \A t \in tasks :
          t.dir = "template" /\ t.type = "delete" /\ Finished(t) =>
              /\ lastCall'.op = "remove"
              /\ X'[t.path] = None
              /\ unhandled' = unhandled ]_vars

\* C14 amended: when the template watch has handled a delete event, either
\* the diff directory held the path when the handler looked and the handler
\* ended there with the target as it was, or the handler has called remove
\* and the target has no file at the path; no failure has escaped.
C14_TemplateDeleteUnlessInDiff ==
    [][ \A t \in tasks :
          t.dir = "template" /\ t.type = "delete" /\ Finished(t) =>
              /\ IF t.at = "exists"
                 THEN /\ D[t.path] # None
                      /\ lastCall'.op = "none"
                      /\ X' = X /\ writes' = writes
                 ELSE /\ lastCall'.op = "remove"
                      /\ X'[t.path] = None
              /\ unhandled' = unhandled ]_vars

\* C14's case: the template's README.md, which sync had copied into the
\* target, was deleted and the handler has removed the target's copy.
C14_Witness ==
    /\ lastCall = [dir |-> "template", type |-> "delete", op |-> "remove",
                   from |-> "-"]
    /\ Write("target", Readme, "template watch") \in writes
    /\ T[Readme] = None /\ D[Readme] = None
    /\ X[Readme] = None

\* C15: a step in which a watch that is ON loses its waiting batch without
\* a handler being started for it, and which is not cleanup's, changes no
\* file, records no write and leaves every watch as it was; a watch that is
\* ON with a batch waiting can always have it delivered; and a watch that is
\* ON leaves that state only in a step of cleanup(), which turns it OFF.
C15_BackendErrorDropsBatch ==
    /\ [][ \A w \in Watches :
             /\ sub[w] = "on" /\ pending[w] # <<>> /\ pending'[w] = <<>>
             /\ tasks' = tasks
             /\ cleanupPc' = cleanupPc /\ cleanupCalls' = cleanupCalls
             => /\ T' = T /\ D' = D /\ X' = X
                /\ targetExists' = targetExists
                /\ writes' = writes
                /\ sub' = sub
                /\ unhandled' = unhandled ]_vars
    /\ [](\A w \in Watches :
             sub[w] = "on" /\ pending[w] # <<>> => ENABLED Deliver(w))
    /\ [][ \A w \in Watches :
             sub[w] = "on" /\ sub'[w] # "on" =>
                 /\ sub'[w] = "off"
                 /\ cleanupPc' = "remove" \/ cleanupCalls' = cleanupCalls + 1
         ]_vars

\* C15's case: the batch with the edit of the diff's app/root.tsx was lost
\* to a backend error, so the target still holds the old file, and the next
\* batch of the same watch, with the edit of .env, was handled.
C15_Witness ==
    /\ D[RootTsx] = "d1" /\ X[RootTsx] = "d0"
    /\ D[DotEnv] = "d1" /\ X[DotEnv] = "d1"
    /\ Write("target", DotEnv, "diff watch") \in writes
    /\ Write("target", RootTsx, "diff watch") \notin writes
    /\ sub["diff"] = "on"
    /\ cleanupCalls = 0 /\ cleanupPc = "idle"
    /\ Quiescent

\* The events a batch of the watch w may hold.
BatchEvents(w) ==
    { [type |-> ty, path |-> BatchPaths(w)[i]] : ty \in EventTypes, i \in 1..2 }

\* The directories s with the file q changed to c in each of them.
Elsewhere(s, q, c) ==
    [T |-> Put(s.T, q, c), D |-> Put(s.D, q, c), X |-> Put(s.X, q, c)]

\* The paths that hold files in the directories of a batch, other than p.
OtherPaths(p) == {RootTsx, Readme, GeneratedDts, CustomerDts} \ {p}

\* The files at the path p in the three directories s.
At(s, p) == <<s.T[p], s.D[p], s.X[p]>>

\* C16: the step that ends the handling of an event leaves the directories
\* as the handler's callback, run on its own, leaves them; the callback
\* changes no file outside the event's path and its outcome at that path does
\* not depend on the files at other paths; handling an event twice leaves the
\* directories as handling it once; and the two orders of handling two events
\* of one watch on different paths leave the same directories.
C16_HandlersIdempotentAnyOrder ==
    /\ [][ \A t \in tasks :
             Finished(t) => Dirs' = Handled(Dirs, t.dir, t.type, t.path) ]_vars
    /\ [](\A w \in Watches : \A e \in BatchEvents(w) :
            LET once == Handled(Dirs, w, e.type, e.path)
            IN  /\ Handled(once, w, e.type, e.path) = once
                /\ \A q \in OtherPaths(e.path) :
                      /\ At(once, q) = At(Dirs, q)
                      /\ \A c \in {None, "x1"} :
                           At(Handled(Elsewhere(Dirs, q, c), w, e.type, e.path),
                              e.path) = At(once, e.path))
    /\ [](\A w \in Watches : \A e1, e2 \in BatchEvents(w) :
            e1.path # e2.path =>
                Handled(Handled(Dirs, w, e1.type, e1.path), w, e2.type, e2.path)
              = Handled(Handled(Dirs, w, e2.type, e2.path), w, e1.type, e1.path))

\* C16's case: a batch of the diff watch with a delete of app/root.tsx and an
\* update of README.md has been handled, the delete restoring the template's
\* file.
C16_Witness ==
    /\ Write("target", RootTsx, "diff watch") \in writes
    /\ Write("target", Readme, "diff watch") \in writes
    /\ X[RootTsx] = "t0" /\ D[RootTsx] = None
    /\ X[Readme] = "d0"
    /\ Quiescent

\* C17 as claimed: when a path was written in the diff and in the template
\* directory, the diff watch has copied it into the target and nothing is
\* left to handle, the target holds the diff's file.
C17_DiffPriorityUnderRace ==
    \A p \in AllPaths :
        /\ D[p] = EditContent("diff") /\ T[p] = EditContent("template")
        /\ Write("target", p, "diff watch") \in writes
        /\ Quiescent
        => X[p] = D[p]

\* What applyTemplateDiff puts into an empty target for the template and the
\* diff directory as they are now.
FreshMerge ==
    copyDirectory(D, copyDirectory(T, EmptyTree, "template"), "diff")

\* C18 as claimed, for a single event: when the three watches run and the one
\* event raised so far has been handled to its end, the target holds at every path other than
\* *.generated.d.ts, package.json, tsconfig.json and .shopify what a fresh
\* applyTemplateDiff of the current template and diff would put there.
C18_SyncRefinesMerge ==
    /\ pc = "returned"
    /\ \A w \in Watches : sub[w] = "on"
    /\ Quiescent
    /\ nEvents <= 1 /\ edits = nEvents
    /\ nEvents = 1 => lastCall # NoCall
    => \A p \in AllPaths : ~SourceIgnore(p) => X[p] = FreshMerge[p]

\* C19 as claimed: when copyDiffBuild has run to its end and every event it
\* raised has been handled, the target's dist is as the build left it and the
\* diff's dist holds the same files.
C19_PullBackLeavesTargetDist ==
    pull = "idle" /\ pulls = 1 /\ Quiescent =>
        \A p \in AllPaths :
            Under(DistDir, p) =>
                /\ X[p] = IF p = DistIndex THEN EditContent("target") ELSE None
                /\ D[p] = X[p]

\* C20 as claimed: from the end of a call of cleanup() that removed the target
\* directory, the target directory stays absent and empty, whatever handler
\* started before the call is still running.
C20_TargetStaysAbsent ==
    cleanupResult = "returned" => ~targetExists /\ X = EmptyTree

====
